---- MODULE Spec2Model ----
(***************************************************************************)
(* simple-json-cv (src/main.py): a JSON resume is loaded, its SVG icons    *)
(* are inlined, it is rendered to HTML through a template, the HTML is     *)
(* written to <output-name>.html and a headless browser exports it to      *)
(* <output-name>.pdf.                                                      *)
(*                                                                         *)
(* Two views of the program are modelled.                                  *)
(*   Spec         one or more invocations of the program (main), step by   *)
(*                step, over a file system that persists between them.     *)
(*                The CV data is opaque here: Html(run) is what run        *)
(*                rendered.                                                *)
(*   SpecEmbed,   the data path _embed_svg_icons -> generate_html on CV    *)
(*   SpecContext  documents and icon files drawn from bounded sets.        *)
(*                                                                         *)
(* Representation of strings.                                              *)
(*   An output name or output path is the sequence of its characters.      *)
(*   An icon reference is the sequence of its '/'-separated components     *)
(*   ("static/icons/e.svg" is <<"static","icons","e.svg">>, a trailing     *)
(*   slash is a last empty component).                                     *)
(*   The text of a file is a sequence of tokens; " " and "\n" are the      *)
(*   whitespace tokens.                                                    *)
(***************************************************************************)
EXTENDS Integers, Sequences, FiniteSets, TLC

VARIABLES
    \* ---- the invocations of the program (Spec)
    run,          \* number of the current invocation
    pc,           \* the statement the invocation is at
    chrome,       \* os.getenv('CHROME_EXECUTABLE_PATH') as read by this run
    pyppeteer,    \* whether `from pyppeteer import launch` succeeds
    inputFile,    \* what open(json_file) / json.load found
    hasTemplate,  \* whether templates/cv_template.html exists
    outName,      \* args.output_name
    html,         \* html_content of build_cv
    htmlFile,     \* html_file of generate_pdf
    dirs,         \* the directories of the output tree
    files,        \* the files of the output tree: path -> content
    tmpl,         \* the templates tree: [dir, iconsDir, icons]
    proj,         \* the project's static/icons: [exists, icons]
    browser,      \* the browser process: "none", "running", "closed"
    exitCode,     \* the process exit status (-1 while running)
    failStage,    \* the statement that raised or exited, "" if none
    completed,    \* "CV generation completed!" was printed
    stages,       \* the pipeline stages this run has performed
    startDirs, startFiles, startTmpl,   \* dirs, files, tmpl when the run began
    \* ---- the data path (SpecEmbed, SpecContext)
    phase,        \* "embed", "render", "done"; "off" under Spec
    json_doc,     \* the CV Document as loaded from the JSON file
    cv_data,      \* the dict _embed_svg_icons mutates and returns
    iconFiles,    \* icon files on disk: path -> "absent", "file", "unreadable"
    iconFiles0,   \* iconFiles before _embed_svg_icons ran
    context       \* the template context generate_html assembled

buildVars == <<run, pc, chrome, pyppeteer, inputFile, hasTemplate, outName, html,
               htmlFile, dirs, files, tmpl, proj, browser, exitCode, failStage,
               completed, stages, startDirs, startFiles, startTmpl>>
dataVars == <<phase, json_doc, cv_data, iconFiles, iconFiles0, context>>
vars == <<buildVars, dataVars>>

----------------------------------------------------------------------------
(* Bounds *)

\* invocations of the program in one behaviour
MaxRuns == 2

----------------------------------------------------------------------------
(* Strings of characters: output names and paths *)

Slash == "/"
DotPdf == <<".", "p", "d", "f">>
DotHtml == <<".", "h", "t", "m", "l">>

\* "o/c": a name in a directory, the shape of the default "output/cv"
NameInDir == <<"o", "/", "c">>
\* "c": a name with no directory component
NameBare == <<"c">>
\* "a/b/c": a name under two directory levels
NameNested == <<"a", "/", "b", "/", "c">>
\* "o/c.pdf": a name that contains ".pdf"
NamePdf == <<"o", "/", "c", ".", "p", "d", "f">>

OutputNames == {NameInDir, NameBare, NameNested, NamePdf}

\* the directories a run may find when it starts
DirO == <<"o">>
DirOC == <<"o", "/", "c">>
DirA == <<"a">>
DirAB == <<"a", "/", "b">>

\* index of the last "/" of p, 0 if none (str.rfind + 1)
RECURSIVE LastSlashFrom(_, _)
LastSlashFrom(p, i) ==
    IF i = 0 THEN 0
    ELSE IF p[i] = Slash THEN i
    ELSE LastSlashFrom(p, i - 1)

\* str.rstrip('/')
RECURSIVE RStripSlash(_)
RStripSlash(p) ==
    IF p = <<>> THEN p
    ELSE IF p[Len(p)] = Slash THEN RStripSlash(SubSeq(p, 1, Len(p) - 1))
    ELSE p

AllSlashes(p) == \A i \in 1..Len(p) : p[i] = Slash

\* os.path.dirname (posixpath): the head up to the last slash, trailing slashes
\* dropped unless the head is only slashes
DirName(p) ==
    LET head == SubSeq(p, 1, LastSlashFrom(p, Len(p)))
    IN IF head # <<>> /\ ~AllSlashes(head) THEN RStripSlash(head) ELSE head

\* str.replace(old, new): every non-overlapping occurrence, left to right
RECURSIVE Replace(_, _, _)
Replace(s, old, new) ==
    IF Len(s) < Len(old) THEN s
    ELSE IF SubSeq(s, 1, Len(old)) = old
         THEN new \o Replace(SubSeq(s, Len(old) + 1, Len(s)), old, new)
         ELSE <<Head(s)>> \o Replace(Tail(s), old, new)

\* html_file = output_file.replace('.pdf', '.html')
HtmlFileOf(output_file) == Replace(output_file, DotPdf, DotHtml)

----------------------------------------------------------------------------
(* The file system of the output tree *)

\* os.path.exists
PathExists(p, ds, fs) == p \in ds \/ p \in DOMAIN fs

\* p and the directories above it
RECURSIVE Ancestors(_)
Ancestors(p) ==
    IF p = <<>> \/ AllSlashes(p) THEN {}
    ELSE {p} \cup Ancestors(DirName(p))

\* os.makedirs(d) without exist_ok raises for '' (FileNotFoundError) and for an
\* existing leaf (FileExistsError)
MakedirsRaises(d, ds, fs) == d = <<>> \/ PathExists(d, ds, fs)

\* os.makedirs(d): the leaf and every missing directory above it
Makedirs(d, ds) == ds \cup Ancestors(d)

\* open(p, 'w') raises when the parent directory is missing or p is a directory
OpenWriteRaises(p, ds) ==
    \/ p \in ds
    \/ DirName(p) # <<>> /\ DirName(p) \notin ds

\* the file p written with content c
WriteFile(fs, p, c) ==
    [q \in DOMAIN fs \cup {p} |-> IF q = p THEN c ELSE fs[q]]

Html(r) == <<"html", r>>
Pdf(r) == <<"pdf", r>>

NoFiles == [q \in {} |-> Html(0)]

----------------------------------------------------------------------------
(* The invocations of the program *)

\* None (the variable is not set), the empty string, a path
ChromeUnset == "<None>"
ChromeValues == {ChromeUnset, "", "/usr/bin/chromium"}
NotRead == "<not read>"

InputStates == {"missing", "malformed", "directory", "valid"}

IconNames == {"cv.svg"}

\* fault variant: only None counts as missing, '' passes (`is not None`)
ChromeConfiguredSetOnly(c) == c # ChromeUnset

\* the truth value of CHROME_EXECUTABLE_PATH := os.getenv(...)
ChromeConfigured(c) == c # ChromeUnset /\ c # ""

\* fault variant: the JSONDecodeError handler does not exit
LoadOutcomeLenient(f) ==
    IF f = "missing" THEN "exit"
    ELSE IF f = "directory" THEN "raise"
    ELSE "data"

\* load_cv_data: "data" on success, "exit" where it calls sys.exit(1), "raise"
\* where open() raises an error it does not catch
LoadOutcome(f) ==
    IF f = "missing" \/ f = "malformed" THEN "exit"
    ELSE IF f = "directory" THEN "raise"
    ELSE "data"

\* fault variant: the result of generate_pdf_pyppeteer is ignored
ExitsOnFailureNever(success) == FALSE

\* generate_pdf: `if not success: sys.exit(1)`
ExitsOnFailure(success) == ~success

Exit(code, stage) ==
    /\ pc' = "exited"
    /\ exitCode' = code
    /\ failStage' = stage

\* an exception nothing catches: the interpreter prints the traceback and the
\* process ends with status 1
Uncaught(stage) == Exit(1, stage)

\* module level: the engine path is read and pyppeteer imported
ModuleImport ==
    /\ pc = "import"
    /\ \E c \in ChromeValues, p \in BOOLEAN :
        /\ chrome' = c
        /\ pyppeteer' = p
        /\ IF ~ChromeConfigured(c) THEN Exit(1, "config")
           ELSE IF ~p THEN Exit(1, "import")
           ELSE /\ pc' = "main"
                /\ UNCHANGED <<exitCode, failStage>>
    /\ UNCHANGED <<run, inputFile, hasTemplate, outName, html, htmlFile, dirs,
                   files, tmpl, proj, browser, completed, stages, startDirs,
                   startFiles, startTmpl, dataVars>>

\* main: the arguments are parsed and SimpleJSONCV() is constructed; __init__
\* makes templates/ and templates/static/icons/ and copies the project's icons
Main ==
    /\ pc = "main"
    /\ \E n \in OutputNames : outName' = n
    /\ tmpl' = [dir |-> TRUE,
                iconsDir |-> TRUE,
                icons |-> [i \in IconNames |->
                             IF proj.exists /\ i \in proj.icons THEN "copied"
                             ELSE tmpl.icons[i]]]
    /\ stages' = stages \cup {"init"}
    /\ pc' = "load"
    /\ UNCHANGED <<run, chrome, pyppeteer, inputFile, hasTemplate, html, htmlFile,
                   dirs, files, proj, browser, exitCode, failStage, completed,
                   startDirs, startFiles, startTmpl, dataVars>>

\* build_cv: cv_data = self.load_cv_data(json_file)
LoadCvData ==
    /\ pc = "load"
    /\ \E f \in InputStates :
        /\ inputFile' = f
        /\ IF LoadOutcome(f) = "exit" THEN Exit(1, "load")
           ELSE IF LoadOutcome(f) = "raise" THEN Uncaught("load")
           ELSE /\ pc' = "embed"
                /\ UNCHANGED <<exitCode, failStage>>
    /\ stages' = stages \cup {"load"}
    /\ UNCHANGED <<run, chrome, pyppeteer, hasTemplate, outName, html, htmlFile,
                   dirs, files, tmpl, proj, browser, completed, startDirs,
                   startFiles, startTmpl, dataVars>>

\* build_cv: cv_data = self._embed_svg_icons(cv_data); it reads icon files and
\* writes none
EmbedStage ==
    /\ pc = "embed"
    /\ stages' = stages \cup {"embed"}
    /\ pc' = "render"
    /\ UNCHANGED <<run, chrome, pyppeteer, inputFile, hasTemplate, outName, html,
                   htmlFile, dirs, files, tmpl, proj, browser, exitCode,
                   failStage, completed, startDirs, startFiles, startTmpl,
                   dataVars>>

\* build_cv: html_content = self.generate_html(cv_data); get_template raises
\* TemplateNotFound when the template file is missing
RenderStage ==
    /\ pc = "render"
    /\ \E t \in BOOLEAN :
        /\ hasTemplate' = t
        /\ IF t
           THEN /\ html' = Html(run)
                /\ pc' = "mkdir"
                /\ UNCHANGED <<exitCode, failStage>>
           ELSE /\ Uncaught("render")
                /\ UNCHANGED html
    /\ stages' = stages \cup {"render"}
    /\ UNCHANGED <<run, chrome, pyppeteer, inputFile, outName, htmlFile, dirs,
                   files, tmpl, proj, browser, completed, startDirs, startFiles,
                   startTmpl, dataVars>>

\* build_cv: if not os.path.exists(output_file_name):
\*               os.makedirs(os.path.dirname(output_file_name))
MakeOutputDir ==
    /\ pc = "mkdir"
    /\ IF PathExists(outName, dirs, files)
       THEN /\ pc' = "write"
            /\ UNCHANGED <<dirs, exitCode, failStage>>
       ELSE IF MakedirsRaises(DirName(outName), dirs, files)
       THEN /\ Uncaught("mkdir")
            /\ UNCHANGED dirs
       ELSE /\ dirs' = Makedirs(DirName(outName), dirs)
            /\ pc' = "write"
            /\ UNCHANGED <<exitCode, failStage>>
    /\ stages' = stages \cup {"mkdir"}
    /\ UNCHANGED <<run, chrome, pyppeteer, inputFile, hasTemplate, outName, html,
                   htmlFile, files, tmpl, proj, browser, completed, startDirs,
                   startFiles, startTmpl, dataVars>>

\* build_cv: with open(output_file_name + ".html", "w") as f: f.write(html_content)
WriteHtml ==
    /\ pc = "write"
    /\ IF OpenWriteRaises(outName \o DotHtml, dirs)
       THEN /\ Uncaught("write")
            /\ UNCHANGED <<files, stages>>
       ELSE /\ files' = WriteFile(files, outName \o DotHtml, html)
            /\ stages' = stages \cup {"write"}
            /\ pc' = "pdf_html"
            /\ UNCHANGED <<exitCode, failStage>>
    /\ UNCHANGED <<run, chrome, pyppeteer, inputFile, hasTemplate, outName, html,
                   htmlFile, dirs, tmpl, proj, browser, completed, startDirs,
                   startFiles, startTmpl, dataVars>>

\* generate_pdf(html_content, output_file_name + ".pdf"): the HTML is saved
\* again, at the path derived from the PDF path
SaveHtmlForPdf ==
    /\ pc = "pdf_html"
    /\ htmlFile' = HtmlFileOf(outName \o DotPdf)
    /\ IF OpenWriteRaises(htmlFile', dirs)
       THEN /\ Uncaught("pdf_html")
            /\ UNCHANGED <<files, stages>>
       ELSE /\ files' = WriteFile(files, htmlFile', html)
            /\ stages' = stages \cup {"pdf_html"}
            /\ pc' = "launch"
            /\ UNCHANGED <<exitCode, failStage>>
    /\ UNCHANGED <<run, chrome, pyppeteer, inputFile, hasTemplate, outName, html,
                   dirs, tmpl, proj, browser, completed, startDirs, startFiles,
                   startTmpl, dataVars>>

\* generate_pdf_pyppeteer's `except Exception` returns False to generate_pdf,
\* which exits with status 1 (`if not success: sys.exit(1)`); otherwise
\* generate_pdf returns to build_cv
ReturnFromPyppeteer(success, stage) ==
    IF ExitsOnFailure(success)
    THEN Exit(1, stage)
    ELSE /\ pc' = "finish"
         /\ failStage' = stage
         /\ UNCHANGED exitCode

\* browser = await launch(executablePath=CHROME_EXECUTABLE_PATH)
Launch ==
    /\ pc = "launch"
    /\ \E ok \in BOOLEAN :
        IF ok
        THEN /\ browser' = "running"
             /\ pc' = "newPage"
             /\ UNCHANGED <<exitCode, failStage>>
        ELSE /\ ReturnFromPyppeteer(FALSE, "launch")
             /\ UNCHANGED browser
    /\ stages' = stages \cup {"launch"}
    /\ UNCHANGED <<run, chrome, pyppeteer, inputFile, hasTemplate, outName, html,
                   htmlFile, dirs, files, tmpl, proj, completed, startDirs,
                   startFiles, startTmpl, dataVars>>

\* page = await browser.newPage()
NewPage ==
    /\ pc = "newPage"
    /\ \E ok \in BOOLEAN :
        IF ok
        THEN /\ pc' = "goto"
             /\ UNCHANGED <<exitCode, failStage>>
        ELSE ReturnFromPyppeteer(FALSE, "newPage")
    /\ stages' = stages \cup {"newPage"}
    /\ UNCHANGED <<run, chrome, pyppeteer, inputFile, hasTemplate, outName, html,
                   htmlFile, dirs, files, tmpl, proj, browser, completed,
                   startDirs, startFiles, startTmpl, dataVars>>

\* await page.goto(f"file://{Path(html_file_path).absolute()}")
Goto ==
    /\ pc = "goto"
    /\ \E ok \in BOOLEAN :
        IF ok
        THEN /\ pc' = "pdf"
             /\ UNCHANGED <<exitCode, failStage>>
        ELSE ReturnFromPyppeteer(FALSE, "goto")
    /\ stages' = stages \cup {"goto"}
    /\ UNCHANGED <<run, chrome, pyppeteer, inputFile, hasTemplate, outName, html,
                   htmlFile, dirs, files, tmpl, proj, browser, completed,
                   startDirs, startFiles, startTmpl, dataVars>>

\* await page.pdf({'path': output_file, 'format': 'A4'})
ExportPdf ==
    /\ pc = "pdf"
    /\ \E ok \in BOOLEAN :
        IF ok
        THEN /\ files' = WriteFile(files, outName \o DotPdf, Pdf(run))
             /\ stages' = stages \cup {"pdf"}
             /\ pc' = "close"
             /\ UNCHANGED <<exitCode, failStage>>
        ELSE /\ ReturnFromPyppeteer(FALSE, "pdf")
             /\ UNCHANGED <<files, stages>>
    /\ UNCHANGED <<run, chrome, pyppeteer, inputFile, hasTemplate, outName, html,
                   htmlFile, dirs, tmpl, proj, browser, completed, startDirs,
                   startFiles, startTmpl, dataVars>>

\* await browser.close(); print(...); return True
CloseBrowser ==
    /\ pc = "close"
    /\ \E ok \in BOOLEAN :
        IF ok
        THEN /\ browser' = "closed"
             /\ pc' = "finish"
             /\ UNCHANGED <<exitCode, failStage>>
        ELSE /\ ReturnFromPyppeteer(FALSE, "close")
             /\ UNCHANGED browser
    /\ stages' = stages \cup {"close"}
    /\ UNCHANGED <<run, chrome, pyppeteer, inputFile, hasTemplate, outName, html,
                   htmlFile, dirs, files, tmpl, proj, completed, startDirs,
                   startFiles, startTmpl, dataVars>>

\* build_cv: print("CV generation completed!"); main returns, status 0
Finish ==
    /\ pc = "finish"
    /\ completed' = TRUE
    /\ exitCode' = 0
    /\ pc' = "exited"
    /\ UNCHANGED <<run, chrome, pyppeteer, inputFile, hasTemplate, outName, html,
                   htmlFile, dirs, files, tmpl, proj, browser, failStage, stages,
                   startDirs, startFiles, startTmpl, dataVars>>

\* the program is invoked again, on the file system the last run left
NextBuild ==
    /\ pc = "exited"
    /\ run < MaxRuns
    /\ run' = run + 1
    /\ pc' = "import"
    /\ chrome' = NotRead
    /\ pyppeteer' = FALSE
    /\ inputFile' = NotRead
    /\ hasTemplate' = FALSE
    /\ outName' = <<>>
    /\ html' = <<>>
    /\ htmlFile' = <<>>
    /\ browser' = "none"
    /\ exitCode' = -1
    /\ failStage' = ""
    /\ completed' = FALSE
    /\ stages' = {}
    /\ startDirs' = dirs
    /\ startFiles' = files
    /\ startTmpl' = tmpl
    /\ UNCHANGED <<dirs, files, tmpl, proj, dataVars>>

\* directories present before the first run: each with the ones above it
InitialDirSets ==
    {ds \in SUBSET {DirO, DirOC, DirA, DirAB} :
        /\ DirOC \in ds => DirO \in ds
        /\ DirAB \in ds => DirA \in ds}

InitialTmpl ==
    {[dir |-> FALSE, iconsDir |-> FALSE, icons |-> [i \in IconNames |-> "absent"]],
     [dir |-> TRUE, iconsDir |-> FALSE, icons |-> [i \in IconNames |-> "absent"]]}
    \cup {[dir |-> TRUE, iconsDir |-> TRUE, icons |-> f] :
            f \in [IconNames -> {"absent", "own"}]}

InitialProj ==
    {[exists |-> FALSE, icons |-> {}]}
    \cup {[exists |-> TRUE, icons |-> s] : s \in SUBSET IconNames}

DataOff ==
    /\ phase = "off"
    /\ json_doc = <<>>
    /\ cv_data = <<>>
    /\ iconFiles = <<>>
    /\ iconFiles0 = <<>>
    /\ context = <<>>

Init ==
    /\ run = 1
    /\ pc = "import"
    /\ chrome = NotRead
    /\ pyppeteer = FALSE
    /\ inputFile = NotRead
    /\ hasTemplate = FALSE
    /\ outName = <<>>
    /\ html = <<>>
    /\ htmlFile = <<>>
    /\ dirs \in InitialDirSets
    /\ files = NoFiles
    /\ tmpl \in InitialTmpl
    /\ proj \in InitialProj
    /\ browser = "none"
    /\ exitCode = -1
    /\ failStage = ""
    /\ completed = FALSE
    /\ stages = {}
    /\ startDirs = dirs
    /\ startFiles = files
    /\ startTmpl = tmpl
    /\ DataOff

Next ==
    \/ ModuleImport
    \/ Main
    \/ LoadCvData
    \/ EmbedStage
    \/ RenderStage
    \/ MakeOutputDir
    \/ WriteHtml
    \/ SaveHtmlForPdf
    \/ Launch
    \/ NewPage
    \/ Goto
    \/ ExportPdf
    \/ CloseBrowser
    \/ Finish
    \/ NextBuild

Spec == Init /\ [][Next]_vars

----------------------------------------------------------------------------
(* The data path: CV documents, icon files, _embed_svg_icons, generate_html *)

\* contacts in a document of SpecEmbed
MaxContacts == 2

\* a Python str: its pieces under "text" (a list is a sequence, so '' and []
\* are different values)
Str(pieces) == [text |-> pieces]
EmptyStr == Str(<<>>)

RecognizedKeys == {"name", "position", "contacts", "summary", "skills",
                   "education_certificates", "languages", "experience"}
ScalarKeys == {"name", "position", "summary"}

StaticIcons == <<"static", "icons">>
TemplatesIcons == <<"templates", "static", "icons">>

\* the icon files of the model
CvSvg == <<"templates", "static", "icons", "cv.svg">>
StaticEmail == <<"static", "icons", "email.svg">>
TemplatesEmail == <<"templates", "static", "icons", "email.svg">>
SubEmail == <<"static", "icons", "sub", "email.svg">>
IconPaths == {CvSvg, StaticEmail, TemplatesEmail, SubEmail}

\* what f.read() returns for each of them
FileText(p) ==
    IF p = CvSvg THEN <<"<svg>CV</svg>", "\n">>
    ELSE IF p = StaticEmail THEN <<"<svg>E</svg>">>
    ELSE IF p = TemplatesEmail THEN <<" ", "<svg>", " ", "T</svg>", "\n">>
    ELSE <<"\n", "\t", "<svg>S</svg>", " ", "\n">>

Whitespace == {" ", "\n", "\t"}

RECURSIVE LStrip(_)
LStrip(t) ==
    IF t # <<>> /\ Head(t) \in Whitespace THEN LStrip(Tail(t)) ELSE t

RECURSIVE RStrip(_)
RStrip(t) ==
    IF t # <<>> /\ t[Len(t)] \in Whitespace
    THEN RStrip(SubSeq(t, 1, Len(t) - 1))
    ELSE t

\* str.strip()
Strip(t) == RStrip(LStrip(t))

FileState(fs, p) == IF p \in DOMAIN fs THEN fs[p] ELSE "absent"

\* Path.exists(): a directory or an unreadable file exists too
IconExists(fs, p) == FileState(fs, p) # "absent"

\* open(p, 'r') ... f.read() raises
ReadRaises(fs, p) == FileState(fs, p) # "file"

\* str.startswith of a directory prefix ('static/icons/'): the components of
\* the prefix, then at least one more
StartsWithDir(s, d) == Len(s) > Len(d) /\ SubSeq(s, 1, Len(d)) = d

\* fault variant: every non-empty icon is taken for a path
IsIconPathAnyIcon(icon) == TRUE

\* contact['icon'].startswith('static/icons/') or
\* contact['icon'].startswith('templates/static/icons/')
IsIconPath(icon) ==
    \/ StartsWithDir(icon.text, StaticIcons)
    \/ StartsWithDir(icon.text, TemplatesIcons)

IsPart(c) == c # "" /\ c # "."

\* Path(s): pathlib drops empty and '.' components
PathOf(s) == SelectSeq(s, IsPart)

\* Path(s).name
PathName(s) == LET q == PathOf(s) IN IF q = <<>> THEN "" ELSE q[Len(q)]

\* fault variant: the templates copy is tried before the project copy
AltPathsTemplatesFirst(icon) ==
    <<PathOf(icon.text),
      Append(TemplatesIcons, PathName(icon.text)),
      Append(StaticIcons, PathName(icon.text))>>

\* alt_paths
AltPaths(icon) ==
    <<PathOf(icon.text),
      Append(StaticIcons, PathName(icon.text)),
      Append(TemplatesIcons, PathName(icon.text))>>

\* None
NoPath == <<>>

\* for path in alt_paths: if path.exists(): svg_path = path; break
RECURSIVE FirstExisting(_, _)
FirstExisting(paths, fs) ==
    IF paths = <<>> THEN NoPath
    ELSE IF IconExists(fs, Head(paths)) THEN Head(paths)
    ELSE FirstExisting(Tail(paths), fs)

\* svg_path after the search
SvgPath(icon, fs) ==
    IF IconExists(fs, PathOf(icon.text)) THEN PathOf(icon.text)
    ELSE FirstExisting(AltPaths(icon), fs)

\* one iteration of `for contact in cv_data['contacts']`
EmbedContact(contact, fs) ==
    IF "icon" \in DOMAIN contact /\ contact["icon"] # EmptyStr
       /\ IsIconPath(contact["icon"])
    THEN LET svg_path == SvgPath(contact["icon"], fs)
         IN IF svg_path # NoPath /\ IconExists(fs, svg_path)
                /\ ~ReadRaises(fs, svg_path)
            THEN [contact EXCEPT !["icon"] = Str(Strip(FileText(svg_path)))]
            ELSE contact
    ELSE contact

\* cv_data['cv_icon'] after the first block of _embed_svg_icons
CvIcon(fs) ==
    IF IconExists(fs, CvSvg)
    THEN IF ReadRaises(fs, CvSvg) THEN EmptyStr
         ELSE Str(Strip(FileText(CvSvg)))
    ELSE EmptyStr

\* d[k] = v
SetItem(d, k, v) == [q \in DOMAIN d \cup {k} |-> IF q = k THEN v ELSE d[q]]

\* _embed_svg_icons(cv_data)
EmbedSvgIconsOf(d, fs) ==
    LET withIcon == SetItem(d, "cv_icon", CvIcon(fs))
    IN IF "contacts" \in DOMAIN withIcon
       THEN [withIcon EXCEPT !["contacts"] =
                [i \in 1..Len(@) |-> EmbedContact(@[i], fs)]]
       ELSE withIcon

\* dict.get(k, default)
Get(d, k, default) == IF k \in DOMAIN d THEN d[k] ELSE default

\* fault variant of the context: the list is split and certificates dropped
IsCertificate(item) == item = "Cert"
IsEducation(item) == ~IsCertificate(item)

ContextOfSplit(d) ==
    [k \in RecognizedKeys \cup {"cv_icon"} |->
        IF k = "education_certificates"
        THEN SelectSeq(Get(d, "education_certificates", <<>>), IsEducation)
        ELSE IF k \in ScalarKeys \cup {"cv_icon"} THEN Get(d, k, EmptyStr)
        ELSE Get(d, k, <<>>)]

\* the context of generate_html: education_certificates is the list the loop
\* appended every item to, the other keys are cv_data.get(key, default)
ContextOf(d) ==
    [k \in RecognizedKeys \cup {"cv_icon"} |->
        IF k = "education_certificates"
        THEN LET src == Get(d, "education_certificates", <<>>)
             IN [i \in 1..Len(src) |-> src[i]]
        ELSE IF k \in ScalarKeys \cup {"cv_icon"} THEN Get(d, k, EmptyStr)
        ELSE Get(d, k, <<>>)]

\* build_cv: cv_data = self._embed_svg_icons(cv_data)
EmbedSvgIcons ==
    /\ phase = "embed"
    /\ cv_data' = EmbedSvgIconsOf(cv_data, iconFiles)
    /\ phase' = "render"
    /\ UNCHANGED <<json_doc, iconFiles, iconFiles0, context, buildVars>>

\* build_cv: html_content = self.generate_html(cv_data)
GenerateHtml ==
    /\ phase = "render"
    /\ context' = ContextOf(cv_data)
    /\ phase' = "done"
    /\ UNCHANGED <<json_doc, cv_data, iconFiles, iconFiles0, buildVars>>

NextData == EmbedSvgIcons \/ GenerateHtml

\* ---- the documents and icon files the data path is run on

InlineIcon == Str(<<"&#9993;">>)
OtherPathIcon == Str(<<"icons", "email.svg">>)
IconValues == {EmptyStr, InlineIcon, OtherPathIcon, Str(StaticEmail),
               Str(TemplatesEmail), Str(SubEmail)}

Contacts ==
    {[link |-> "mail"]} \cup {[link |-> "mail", icon |-> v] : v \in IconValues}

SeqsUpTo(S, n) == UNION {[1..m -> S] : m \in 0..n}

\* the value a recognized key has when the document holds it
ValueOf(k) ==
    IF k = "name" THEN Str(<<"Ada">>)
    ELSE IF k = "position" THEN Str(<<"Engineer">>)
    ELSE IF k = "summary" THEN Str(<<"Builds", " ", "things">>)
    ELSE IF k = "skills" THEN <<"tla", "python">>
    ELSE IF k = "languages" THEN <<"en">>
    ELSE IF k = "experience" THEN <<"job2", "job1">>
    ELSE <<>>

EducationLists == {<<>>, <<"BSc", "Cert">>, <<"Cert", "BSc", "Cert">>}

\* a document: the keys of ks with their values, the contacts cs unless absent,
\* the education list e if the key is in ks
Doc(ks, hasContacts, cs, e) ==
    [k \in ks \cup (IF hasContacts THEN {"contacts"} ELSE {}) |->
        IF k = "contacts" THEN cs
        ELSE IF k = "education_certificates" THEN e
        ELSE IF k = "cv_icon" THEN Str(<<"<svg>INPUT</svg>">>)
        ELSE IF k = "extra" THEN Str(<<"kept">>)
        ELSE ValueOf(k)]

BuildOff ==
    /\ run = 0
    /\ pc = "off"
    /\ chrome = NotRead
    /\ pyppeteer = FALSE
    /\ inputFile = NotRead
    /\ hasTemplate = FALSE
    /\ outName = <<>>
    /\ html = <<>>
    /\ htmlFile = <<>>
    /\ dirs = {}
    /\ files = NoFiles
    /\ tmpl = [dir |-> FALSE, iconsDir |-> FALSE,
               icons |-> [i \in IconNames |-> "absent"]]
    /\ proj = [exists |-> FALSE, icons |-> {}]
    /\ browser = "none"
    /\ exitCode = -1
    /\ failStage = ""
    /\ completed = FALSE
    /\ stages = {}
    /\ startDirs = {}
    /\ startFiles = NoFiles
    /\ startTmpl = tmpl

DataStart ==
    /\ phase = "embed"
    /\ cv_data = json_doc
    /\ iconFiles0 = iconFiles
    /\ context = <<>>

\* documents with any contacts, a few sets of other keys, any icon files
InitEmbed ==
    /\ BuildOff
    /\ \E ks \in {{}, {"name", "skills", "cv_icon", "extra"}},
          hasContacts \in BOOLEAN,
          cs \in SeqsUpTo(Contacts, MaxContacts) :
        /\ hasContacts \/ cs = <<>>
        /\ json_doc = Doc(ks, hasContacts, cs, <<>>)
    /\ iconFiles \in [IconPaths -> {"absent", "file", "unreadable"}]
    /\ DataStart

SpecEmbed == InitEmbed /\ [][NextData]_vars

ContextContacts ==
    {<<>>,
     <<[link |-> "mail", icon |-> Str(StaticEmail)]>>,
     <<[link |-> "web", icon |-> InlineIcon], [link |-> "mail", icon |-> Str(SubEmail)]>>}

\* documents with any subset of the recognized keys, with or without a cv_icon
\* and an unrecognized key of their own
InitContext ==
    /\ BuildOff
    /\ \E ks \in SUBSET ((RecognizedKeys \ {"contacts"}) \cup {"cv_icon", "extra"}),
          hasContacts \in BOOLEAN,
          cs \in ContextContacts,
          e \in EducationLists :
        /\ hasContacts \/ cs = <<>>
        /\ "education_certificates" \in ks \/ e = <<>>
        /\ json_doc = Doc(ks, hasContacts, cs, e)
    /\ iconFiles \in {f \in [IconPaths -> {"absent", "file", "unreadable"}] :
                        f[TemplatesEmail] = "absent" /\ f[SubEmail] = "absent"
                        /\ f[StaticEmail] # "unreadable"}
    /\ DataStart

SpecContext == InitContext /\ [][NextData]_vars

----------------------------------------------------------------------------
(* Properties of the invocations (Spec) *)

ExportStages == {"launch", "newPage", "goto", "pdf"}

\* C1: a run that launched the browser has closed it when it ends: no final
\* state has a browser that was launched and is still running.
C1_BrowserClosedAtExit == pc = "exited" => browser # "running"

\* C2: a run that starts with <output-name>.html already written by an earlier
\* run, and that rendered its HTML, reaches the write step, and
\* <output-name>.html then holds the HTML of this run.
C2_LastWriteWins ==
    (/\ pc = "exited"
     /\ html = Html(run)
     /\ (outName \o DotHtml) \in DOMAIN startFiles
     /\ DirName(outName) \in startDirs)
    => /\ "write" \in stages
       /\ files[outName \o DotHtml] = Html(run)

\* C3: whatever directories the run found, the parent directory of
\* <output-name>.html exists (or the name has no directory component) when the
\* write step is reached, and every run that rendered its HTML reaches the
\* write step and writes the file.
C3_ParentExistsAndWriteReached ==
    /\ pc = "write" => DirName(outName) = <<>> \/ DirName(outName) \in dirs
    /\ (pc = "exited" /\ html = Html(run)) => "write" \in stages

\* C6: with CHROME_EXECUTABLE_PATH unset or empty the run has exited with a
\* non-zero status, has performed no stage (the builder was not constructed,
\* the input file not opened) and has left the templates tree and the output
\* tree as it found them.
C6_NoWorkWithoutEngine ==
    chrome \in {ChromeUnset, ""}
    => /\ pc = "exited"
       /\ exitCode > 0
       /\ stages = {}
       /\ inputFile = NotRead
       /\ tmpl = startTmpl
       /\ dirs = startDirs
       /\ files = startFiles

\* C6 witness: a run with no engine path has exited with status 1 where the
\* builder would have had a templates tree to make and icons to copy.
C6_Witness ==
    /\ chrome = ChromeUnset
    /\ pc = "exited"
    /\ exitCode = 1
    /\ ~tmpl.dir
    /\ proj.exists /\ proj.icons # {}

\* C7: when the input file is missing or is not valid JSON the run has exited
\* with a non-zero status at the load step, no later stage has run, and the
\* output tree (directories, <output-name>.html, <output-name>.pdf) is as the
\* run found it.
C7_InputErrorStopsAtLoad ==
    inputFile \in {"missing", "malformed"}
    => /\ pc = "exited"
       /\ exitCode > 0
       /\ failStage = "load"
       /\ stages \subseteq {"init", "load"}
       /\ html = <<>>
       /\ dirs = startDirs
       /\ files = startFiles

\* C7 witness: a run on malformed JSON has exited with status 1 while an
\* earlier run's output files were there to be modified.
C7_Witness ==
    /\ inputFile = "malformed"
    /\ pc = "exited"
    /\ exitCode = 1
    /\ startFiles # NoFiles

\* C8: a failure of launch, newPage, goto or pdf ends the run with a non-zero
\* status and completion is never reported; a run ends with status 0 only
\* after the PDF export wrote <output-name>.pdf; and whenever the run is at an
\* export step <output-name>.html holds the HTML of this run.
C8_ExportFailureIsFatal ==
    /\ failStage \in ExportStages
       => pc = "exited" /\ exitCode > 0 /\ ~completed
    /\ (pc = "exited" /\ exitCode = 0)
       => /\ "pdf" \in stages
          /\ (outName \o DotPdf) \in DOMAIN files
          /\ files[outName \o DotPdf] = Pdf(run)
    /\ pc \in ExportStages \cup {"close"}
       => /\ (outName \o DotHtml) \in DOMAIN files
          /\ files[outName \o DotHtml] = Html(run)

\* C8 witness: navigation failed in a run whose HTML artifact was written, and
\* the run has ended with status 1.
C8_Witness ==
    /\ pc = "exited"
    /\ failStage = "goto"
    /\ exitCode = 1
    /\ (outName \o DotHtml) \in DOMAIN files
    /\ files[outName \o DotHtml] = Html(run)

\* C10: the HTML file generate_pdf derives from '<output-name>.pdf', and that
\* the exporter navigates to, is the '<output-name>.html' build_cv wrote, for
\* every output name.
C10_ExporterReadsWrittenHtml ==
    pc \in ExportStages => htmlFile = outName \o DotHtml

----------------------------------------------------------------------------
(* Properties of the data path (SpecEmbed, SpecContext) *)

\* the reference begins with 'static/icons/' or 'templates/static/icons/'
Prefixed(ref) ==
    LET t == ref.text
    IN \/ Len(t) >= 3 /\ t[1] = "static" /\ t[2] = "icons"
       \/ Len(t) >= 4 /\ t[1] = "templates" /\ t[2] = "static" /\ t[3] = "icons"

\* the three candidates of a reference, in the order of the specification
Candidates(ref) ==
    <<PathOf(ref.text),
      <<"static", "icons", PathName(ref.text)>>,
      <<"templates", "static", "icons", PathName(ref.text)>>>>

\* what the specification says the icon of a path-like reference becomes
Resolved(ref, fs) ==
    LET cands == Candidates(ref)
        found == {j \in 1..3 : FileState(fs, cands[j]) # "absent"}
    IN IF found = {} THEN ref
       ELSE LET first == CHOOSE j \in found : \A m \in found : j <= m
            IN IF FileState(fs, cands[first]) = "file"
               THEN Str(Strip(FileText(cands[first])))
               ELSE ref

SourceContacts == Get(json_doc, "contacts", <<>>)

DefaultOf(k) == IF k \in {"name", "position", "summary"} THEN EmptyStr ELSE <<>>

\* the keys of the context, and the values of all but contacts
ContextKeysAndValues ==
    /\ DOMAIN context = {"name", "position", "contacts", "summary", "skills",
                         "education_certificates", "languages", "experience",
                         "cv_icon"}
    /\ \A k \in RecognizedKeys \ {"contacts"} :
        context[k] = IF k \in DOMAIN json_doc THEN json_doc[k] ELSE DefaultOf(k)
    /\ context["cv_icon"] =
        IF FileState(iconFiles, CvSvg) = "file"
        THEN Str(<<"<svg>CV</svg>">>)
        ELSE EmptyStr

C5_FirstExistingCandidate ==
    phase \in {"render", "done"}
    => /\ Len(Get(cv_data, "contacts", <<>>)) = Len(SourceContacts)
       /\ \A i \in 1..Len(SourceContacts) :
            LET src == SourceContacts[i]
            IN ("icon" \in DOMAIN src /\ Prefixed(src["icon"]))
               => /\ cv_data["contacts"][i]["icon"] = Resolved(src["icon"], iconFiles0)
                  /\ (src["icon"] = Str(<<"static", "icons", "email.svg">>)
                      /\ FileState(iconFiles0, StaticEmail) = "file")
                     => cv_data["contacts"][i]["icon"] = Str(<<"<svg>E</svg>">>)

\* C5 witness: the path as given is absent, both fallbacks exist, and the icon
\* is the text of the static/icons copy.
C5_Witness ==
    /\ phase = "render"
    /\ Len(SourceContacts) = 2
    /\ SourceContacts[2] = [link |-> "mail", icon |-> Str(SubEmail)]
    /\ iconFiles0[SubEmail] = "absent"
    /\ iconFiles0[StaticEmail] = "file"
    /\ iconFiles0[TemplatesEmail] = "file"
    /\ cv_data["contacts"][2]["icon"] = Str(<<"<svg>E</svg>">>)

\* C9: _embed_svg_icons adds or replaces cv_icon and nothing else at the top
\* level; it keeps the number and order of contacts, every contact's keys and
\* every field but icon; an icon that is absent, empty or not path-like is
\* unchanged; and no file is written.
C9_EmbedFrame ==
    phase \in {"render", "done"}
    => /\ DOMAIN cv_data = DOMAIN json_doc \cup {"cv_icon"}
       /\ \A k \in DOMAIN json_doc \ {"cv_icon", "contacts"} :
            cv_data[k] = json_doc[k]
       /\ "contacts" \in DOMAIN json_doc
          => /\ Len(cv_data["contacts"]) = Len(json_doc["contacts"])
             /\ \A i \in 1..Len(json_doc["contacts"]) :
                  LET src == json_doc["contacts"][i]
                      out == cv_data["contacts"][i]
                  IN /\ DOMAIN out = DOMAIN src
                     /\ \A f \in DOMAIN src \ {"icon"} : out[f] = src[f]
                     /\ ("icon" \in DOMAIN src /\ ~Prefixed(src["icon"]))
                        => out["icon"] = src["icon"]
       /\ iconFiles = iconFiles0

\* C9 witness: a document with other fields and two contacts, one with a
\* non-path icon that has a file of the same basename under static/icons, one
\* with a path-like icon that was embedded.
C9_Witness ==
    /\ phase = "render"
    /\ "skills" \in DOMAIN json_doc
    /\ Len(SourceContacts) = 2
    /\ SourceContacts[1] = [link |-> "mail", icon |-> OtherPathIcon]
    /\ SourceContacts[2] = [link |-> "mail", icon |-> Str(StaticEmail)]
    /\ iconFiles[StaticEmail] = "file"
    /\ cv_data["contacts"][1]["icon"] = OtherPathIcon
    /\ cv_data["contacts"][2]["icon"] = Str(<<"<svg>E</svg>">>)

====
